---- MODULE Spec2Model ----
(***************************************************************************)
(* Mission execution engine of backend/simulation_server.py: the survey    *)
(* pattern generator, the execute_mission thread(s), the command           *)
(* dispatcher handle_client_messages, and the vehicle they drive.          *)
(*                                                                         *)
(* Units: latitudes and longitudes are integers counted in grid_spacing    *)
(* steps (0.0001 degree); altitudes are integers counted in 0.0001 m, so   *)
(* that the feet-to-metre factor 0.3048 is the integer 3048.               *)
(***************************************************************************)
EXTENDS Integers, Sequences, FiniteSets, TLC

\* ---------------------------------------------------------------- bounds
\* Number of execute_mission threads the dispatcher may spawn in one run.
MaxMissions == 2
\* Number of execute_mission threads in the runs that watch the telemetry.
MaxTelemetryMissions == 1
\* Largest distance_flown followed, in units of the distance between two
\* neighbouring positions.
MaxDistance == 2
\* Largest latitude and longitude, in grid steps, of the vertices of the
\* polygons generate_survey_pattern is applied to on its own.
MaxCoordinate == 2
\* ------------------------------------------------------------- constants
\* grid_spacing = 0.0001 degree, the unit of the coordinates.
grid_spacing == 1
\* altitude + 10 (metres) of the perpendicular sweep, in 0.0001 m.
EnhancedAltitudeOffset == 100000
\* mission_data.get('altitude', 100): the default altitude in feet.
DefaultAltitudeFeet == 100
\* len(waypoints) < 3
MinVertices == 3
\* timeout = 30: the seconds the armable wait may last, one poll a second.
PreflightTimeout == 30

\* A value that is no record of the program (Python's None).
None == [is_none |-> TRUE]

Runs == 1..MaxMissions

\* ---------------------------------------------------------------- events
\* send_message(message_type, payload): one line on stdout.  msg keeps the
\* constant part of the payload, n its number (0 when it has none).
Event(type, msg, n) == [type |-> type, msg |-> msg, n |-> n]

CountType(s, type) == Cardinality({k \in DOMAIN s : s[k].type = type})

\* The errors generate_survey_pattern reports itself (lines 113 and 176).
GeneratorErrors ==
    {"Need at least 3 waypoints to generate survey pattern",
     "Turf library not available, using simple grid pattern"}

\* The two statuses that report a cancellation (lines 293 and 358).
Cancellations ==
    {"Mission cancelled during takeoff", "Mission cancelled - returning to launch"}

\* The error execute_mission reports when a call of the vehicle interface
\* raises.
VehicleFailure == "Mission error: vehicle interface"

IsCancellation(e) == e.type = "status" /\ e.msg \in Cancellations

\* The events that end a run: mission_complete, a cancellation status, or an
\* error execute_mission reports itself.
IsTerminal(e) ==
    \/ e.type = "mission_complete"
    \/ IsCancellation(e)
    \/ e.type = "error" /\ e.msg \notin GeneratorErrors

\* What log keeps of the events of a run: the errors, the terminal events
\* and simulation_end.
IsReport(e) == e.type \in {"error", "simulation_end"} \/ IsTerminal(e)

\* ------------------------------------------------- survey pattern generator
Min(S) == CHOOSE x \in S : \A y \in S : x <= y
Max(S) == CHOOSE x \in S : \A y \in S : y <= x

SurveyPoint(lat, lng, altitude) ==
    [lat |-> lat, lng |-> lng, altitude |-> altitude, action |-> "photo"]

\* The row sweep of lines 133-149 and 186-194: rows south to north, even rows
\* west to east, odd rows east to west.
RowSweep(min_lat, max_lat, min_lon, max_lon, altitude) ==
    LET cols == ((max_lon - min_lon) \div grid_spacing) + 1
        rows == ((max_lat - min_lat) \div grid_spacing) + 1
    IN  [k \in 1..(rows * cols) |->
            LET row == (k - 1) \div cols
                j   == (k - 1) % cols
            IN  SurveyPoint(min_lat + row * grid_spacing,
                            IF row % 2 = 0 THEN min_lon + j * grid_spacing
                                           ELSE min_lon + (cols - 1 - j) * grid_spacing,
                            altitude)]

\* The perpendicular sweep of lines 196-208: columns west to east, even
\* columns south to north, odd columns north to south, at altitude + 10.
ColumnSweep(min_lat, max_lat, min_lon, max_lon, altitude) ==
    LET cols == ((max_lon - min_lon) \div grid_spacing) + 1
        rows == ((max_lat - min_lat) \div grid_spacing) + 1
    IN  [k \in 1..(rows * cols) |->
            LET col == (k - 1) \div rows
                j   == (k - 1) % rows
            IN  SurveyPoint(IF col % 2 = 0 THEN min_lat + j * grid_spacing
                                           ELSE min_lat + (rows - 1 - j) * grid_spacing,
                            min_lon + col * grid_spacing,
                            altitude + EnhancedAltitudeOffset)]

\* turf.boolean_point_in_polygon(point, polygon) on the closed ring of the
\* waypoints: a point of the boundary is inside; otherwise the crossing
\* number of the ray to the east decides.
OnSegment(p, a, b) ==
    /\ (b.lng - a.lng) * (p.lat - a.lat) = (b.lat - a.lat) * (p.lng - a.lng)
    /\ Min({a.lat, b.lat}) <= p.lat /\ p.lat <= Max({a.lat, b.lat})
    /\ Min({a.lng, b.lng}) <= p.lng /\ p.lng <= Max({a.lng, b.lng})

Crosses(p, a, b) ==
    /\ (a.lat > p.lat) # (b.lat > p.lat)
    /\ IF b.lat > a.lat
       THEN (p.lng - a.lng) * (b.lat - a.lat) < (b.lng - a.lng) * (p.lat - a.lat)
       ELSE (p.lng - a.lng) * (b.lat - a.lat) > (b.lng - a.lng) * (p.lat - a.lat)

boolean_point_in_polygon(p, waypoints) ==
    LET n == Len(waypoints)
        nxt(k) == IF k = n THEN 1 ELSE k + 1
    IN  \/ \E k \in 1..n : OnSegment(p, waypoints[k], waypoints[nxt(k)])
        \/ Cardinality({k \in 1..n :
                          Crosses(p, waypoints[k], waypoints[nxt(k)])}) % 2 = 1

\* generate_survey_pattern(waypoints, altitude, enhanced_3d).  turf tells
\* whether `import turf` succeeds.  The result holds the returned list, the
\* events sent, and whether the call raised instead of returning.
generate_survey_pattern(waypoints, altitude, enhanced_3d, turf) ==
    IF Len(waypoints) < MinVertices
    THEN [points |-> waypoints, raised |-> FALSE,
          events |-> <<Event("error", "Need at least 3 waypoints to generate survey pattern", 0)>>]
    ELSE
    LET lats == {waypoints[k].lat : k \in DOMAIN waypoints}
        lons == {waypoints[k].lng : k \in DOMAIN waypoints}
        min_lat == Min(lats)
        max_lat == Max(lats)
        min_lon == Min(lons)
        max_lon == Max(lons)
        rows == RowSweep(min_lat, max_lat, min_lon, max_lon, altitude)
        Inside(p) == boolean_point_in_polygon(p, waypoints)
        filtered == SelectSeq(rows, Inside)
    IN  IF turf
        THEN IF enhanced_3d
             \* line 153 reads min_lon, a local that is only bound in the
             \* except branch: UnboundLocalError, which is no ImportError
             THEN [points |-> <<>>, raised |-> TRUE, events |-> <<>>]
             ELSE [points |-> filtered, raised |-> FALSE,
                   events |-> <<Event("status", "Generated survey points", Len(filtered))>>]
        ELSE [points |-> IF enhanced_3d
                         THEN rows \o ColumnSweep(min_lat, max_lat, min_lon, max_lon, altitude)
                         ELSE rows,
              raised |-> FALSE,
              events |-> <<Event("error", "Turf library not available, using simple grid pattern", 0)>>]

\* point.get('action') and point.get('altitude', altitude): a waypoint the
\* generator handed back unchanged carries neither key.
PointAction(point) == IF "action" \in DOMAIN point THEN point.action ELSE "none"


\* ----------------------------------------------------------------- state
VARIABLES
    vehicle,            \* global vehicle: None, or the connected vehicle's state
    is_mission_active,  \* global is_mission_active
    current_mission,    \* global current_mission: None or a MissionState
    turf_available,     \* whether `import turf` succeeds in this installation
    dispatcher,         \* handle_client_messages: "read", or "exit" after os._exit
    line,               \* the line of stdin handled last (None before the first)
    out,                \* the events the handling of that line sent
    mission_task,       \* number of execute_mission threads started so far
    pc,                 \* pc[m]: where thread m of execute_mission stands
    mission_data,       \* mission_data[m]: the argument of thread m
    survey_points,      \* survey_points[m]: the local list of thread m
    i,                  \* i[m]: the index of the for loop of thread m
    log,                \* log[m]: the reports thread m has sent, in order
    stopped_in,         \* stopped_in[m]: the phase thread m was in when a
                        \* stop_mission first cleared the flag under it
    watch,              \* which history is kept: line and out ("commands"),
                        \* the reports in log and stopped_in ("missions"),
                        \* every event in log ("events"), sent and the
                        \* distances ("telemetry"), or the results of
                        \* generate_survey_pattern alone ("pattern")
    previous_position,  \* previous_position[m]: the local of thread m
    waited,             \* waited[m]: the seconds thread m has slept in its
                        \* armable wait (kept in the runs that watch "events")
    telemetry,          \* stream_telemetry: where it stands, and its locals
    sent                \* the events the last tick of stream_telemetry sent

vars == <<vehicle, is_mission_active, current_mission, turf_available,
          dispatcher, line, out, mission_task, pc, mission_data,
          survey_points, i, log, stopped_in, watch, previous_position,
          waited, telemetry, sent>>

dispatcher_vars == <<dispatcher, line, out>>
mission_locals == <<mission_data, survey_points, i>>
telemetry_vars == <<telemetry, sent>>

\* ------------------------------------------------------------ the inputs
Waypoint(lat, lng) == [lat |-> lat, lng |-> lng]

\* The waypoint lists of the commands: n vertices on one grid point, the
\* polygon with the shortest survey.
Polygon(n) == [k \in 1..n |-> Waypoint(0, 0)]

\* data.get("data", {}) of a start_mission command.
MissionInputs ==
    {[waypoints |-> Polygon(n), altitude |-> DefaultAltitudeFeet, enhanced3d |-> e] :
        n \in {0, 1, MinVertices}, e \in {FALSE}}

NoData == [waypoints |-> <<>>, altitude |-> DefaultAltitudeFeet, enhanced3d |-> FALSE]

\* A line of stdin: whether json.loads accepts it, whether the value is an
\* object, its "command" member ("None" when it has none) and its "data".
Line(json, object, command, data) ==
    [json |-> json, object |-> object, command |-> command, data |-> data]

Commands == {"start_mission", "stop_mission", "emergency_land", "get_status",
             "shutdown", "land_now"}

Lines ==
    {Line(FALSE, FALSE, "None", NoData), Line(TRUE, FALSE, "None", NoData),
     Line(TRUE, TRUE, "None", NoData)}
    \cup {Line(TRUE, TRUE, c, NoData) : c \in Commands \ {"start_mission"}}
    \cup {Line(TRUE, TRUE, "start_mission", d) : d \in MissionInputs}

\* json.loads(line) followed by data.get("command"): the command, or the
\* exception raised on the way.
Command(l) ==
    IF ~l.json THEN "JSONDecodeError"
    ELSE IF ~l.object THEN "AttributeError"
    ELSE l.command

\* altitude = mission_data.get('altitude', 100) * 0.3048
FeetToMeters(feet) == feet * 3048

\* ------------------------------------------------------------ the vehicle
\* connect('tcp:127.0.0.1:5760', wait_ready=True): a disarmed vehicle.  Of
\* the vehicle, the model keeps what the program sets (the mode, the arm
\* request) and whether it is armed; what the program only reads of it
\* (is_armable, the altitude, the position) is free at every read.
ConnectedVehicle == [mode |-> "STABILIZE", armed |-> FALSE, arm_requested |-> FALSE]

\* class MissionState, as constructed by MissionState().
\* The positions the vehicle reports: two neighbouring points of one parallel.
Positions == {Waypoint(0, 0), Waypoint(0, 1)}

\* calculate_distance(lat1, lon1, lat2, lon2) between two such positions, in
\* units of the distance between the two.
calculate_distance(a, b) ==
    IF a.lat = b.lat /\ a.lng = b.lng THEN 0
    ELSE IF a.lng > b.lng THEN a.lng - b.lng ELSE b.lng - a.lng

\* class MissionState, as constructed by MissionState().  sampled is no
\* field of the class: it adds up what the arrival wait of execute_mission
\* has added to distance_flown.
MissionState(m) ==
    [owner |-> m, photos_taken |-> 0, current_waypoint |-> 0,
     distance_flown |-> 0, sampled |-> 0]

\* stream_telemetry before its first tick: previous_position = None.
TelemetryStarted ==
    [pc |-> "tick", previous_position |-> None, location |-> None, distance |-> 0,
     object |-> 0, loaded |-> 0]

Start ==
    /\ vehicle = None
    /\ is_mission_active = FALSE
    /\ current_mission = None
    /\ turf_available \in BOOLEAN
    /\ dispatcher = "read"
    /\ line = None
    /\ out = <<>>
    /\ mission_task = 0
    /\ pc = [m \in Runs |-> "idle"]
    /\ survey_points = [m \in Runs |-> <<>>]
    /\ i = [m \in Runs |-> 0]
    /\ log = [m \in Runs |-> <<>>]
    /\ stopped_in = [m \in Runs |-> "none"]
    /\ previous_position = [m \in Runs |-> None]
    /\ waited = [m \in Runs |-> 0]
    /\ telemetry = TelemetryStarted
    /\ sent = <<>>

\* The runs that keep the history of the missions, and those that keep the
\* history of the dispatcher: the program is the same in both.
NoMissions == mission_data = [m \in Runs |-> NoData]
Init == Start /\ NoMissions /\ watch = "missions"
InitCommands == Start /\ NoMissions /\ watch = "commands"
InitTelemetry == Start /\ NoMissions /\ watch = "telemetry"
InitEvents == Start /\ NoMissions /\ watch = "events"

\* The polygons generate_survey_pattern is applied to on its own: every list
\* of MinVertices vertices on the grid points up to MaxCoordinate.
Coordinates == 0..MaxCoordinate
PatternPolygons ==
    [1..MinVertices -> {Waypoint(lat, lng) : lat, lng \in Coordinates}]

\* The calls of generate_survey_pattern on its own: one polygon and one
\* altitude, with enhanced_3d false in the odd calls and true in the even.
InitPattern ==
    /\ Start /\ watch = "pattern"
    /\ \E polygon \in PatternPolygons :
          mission_data = [m \in Runs |->
                            [waypoints |-> polygon, altitude |-> DefaultAltitudeFeet,
                             enhanced3d |-> (m % 2 = 0)]]

\* The number of execute_mission threads a run follows.
MissionLimit == IF watch = "telemetry" THEN MaxTelemetryMissions ELSE MaxMissions

\* os._exit(0) ends every thread of the process.
Running == dispatcher # "exit"

\* The phase of the mission state machine thread m is in.
Phase(m) ==
    CASE pc[m] = "spawned" -> "Starting"
      [] pc[m] = "preflight_wait" -> "PreflightWait"
      [] pc[m] = "arm_wait" -> "Arming"
      [] pc[m] = "takeoff_wait" -> "TakingOff"
      [] pc[m] \in {"for_loop", "arrival_wait"} -> "Surveying"
      [] pc[m] = "rtl_wait" -> "ReturningToLaunch"
      [] pc[m] = "finally" -> "Exiting"
      [] OTHER -> "none"

InProgress(m) == pc[m] \notin {"idle", "done"}

\* The phases whose wait loop is meant to observe the cancellation.
CancellablePhases == {"PreflightWait", "Arming", "TakingOff", "Surveying"}


\* ------------------------------------------------- the command dispatcher
\* The line handled and the events sent for it.
Sent(l, events) ==
    /\ line' = IF watch = "commands" THEN l ELSE line
    /\ out' = IF watch = "commands" THEN events ELSE out

\* What one handled line leaves untouched unless it says otherwise.
Handled(l, events) ==
    /\ Sent(l, events)
    /\ UNCHANGED <<dispatcher, turf_available, survey_points, i, log, watch,
                   previous_position, waited, telemetry_vars>>

\* start_sitl() and connect_to_drone(), lines 45-63 and 83-96.
SitlStarted ==
    <<Event("status", "Starting SITL simulator...", 0),
      Event("status", "SITL simulator started successfully", 0)>>
SitlFailed ==
    <<Event("status", "Starting SITL simulator...", 0),
      Event("error", "Failed to start SITL", 0),
      Event("error", "Failed to start SITL simulator", 0)>>
ConnectFailed ==
    SitlStarted \o
    <<Event("status", "Attempting to connect to vehicle...", 0),
      Event("error", "Error connecting to vehicle", 0),
      Event("error", "Failed to connect to drone", 0)>>
Connected ==
    SitlStarted \o
    <<Event("status", "Attempting to connect to vehicle...", 0),
      Event("status", "Vehicle connected successfully!", 0)>>

\* threading.Thread(target=execute_mission, args=(mission_data,)).start()
Spawn(data) ==
    /\ mission_task' = mission_task + 1
    /\ pc' = [pc EXCEPT ![mission_task + 1] = "spawned"]
    /\ mission_data' = [mission_data EXCEPT ![mission_task + 1] = data]

NoSpawn == UNCHANGED <<mission_task, pc, mission_data>>

\* A start_mission that does not look at is_mission_active.
StartMissionUnguarded(l) ==
    /\ dispatcher = "read"
    /\ Command(l) = "start_mission"
    /\ mission_task < MissionLimit
    /\ UNCHANGED <<is_mission_active, current_mission, stopped_in>>
    /\ IF vehicle = None
       THEN /\ vehicle' = ConnectedVehicle
            /\ Handled(l, Connected)
            /\ Spawn(l.data)
       ELSE /\ UNCHANGED vehicle
            /\ Handled(l, <<>>)
            /\ Spawn(l.data)

\* command == "start_mission", lines 437-456.
StartMission(l) ==
    /\ dispatcher = "read"
    /\ Command(l) = "start_mission"
    /\ ~is_mission_active => mission_task < MissionLimit
    /\ UNCHANGED <<is_mission_active, current_mission, stopped_in>>
    /\ IF is_mission_active
       THEN /\ Handled(l, <<Event("error", "Mission already in progress", 0)>>)
            /\ NoSpawn
            /\ UNCHANGED vehicle
       ELSE IF vehicle = None
       THEN \E sitl_ok, connect_ok \in BOOLEAN :
              IF sitl_ok /\ connect_ok
              THEN /\ vehicle' = ConnectedVehicle
                   /\ Handled(l, Connected)
                   /\ Spawn(l.data)
              ELSE /\ UNCHANGED vehicle
                   /\ Handled(l, IF sitl_ok THEN ConnectFailed ELSE SitlFailed)
                   /\ NoSpawn
       ELSE /\ UNCHANGED vehicle
            /\ Handled(l, <<>>)
            /\ Spawn(l.data)

\* A stop_mission that clears the flag and leaves the vehicle to the thread.
StopMissionFlagOnly(l) ==
    /\ dispatcher = "read"
    /\ Command(l) = "stop_mission"
    /\ NoSpawn
    /\ UNCHANGED <<current_mission, vehicle, stopped_in>>
    /\ is_mission_active' = FALSE
    /\ Handled(l, IF is_mission_active
                  THEN <<Event("status", "Stopping mission...", 0)>>
                  ELSE <<Event("warning", "No active mission to stop", 0)>>)

\* command == "stop_mission", lines 458-465.
StopMission(l) ==
    /\ dispatcher = "read"
    /\ Command(l) = "stop_mission"
    /\ NoSpawn
    /\ UNCHANGED current_mission
    /\ IF is_mission_active
       THEN /\ is_mission_active' = FALSE
            /\ Handled(l, <<Event("status", "Stopping mission...", 0)>>)
            /\ vehicle' = IF vehicle # None
                          THEN [vehicle EXCEPT !.mode = "RTL"]
                          ELSE vehicle
            /\ stopped_in' = [m \in Runs |->
                                IF /\ watch = "missions"
                                   /\ stopped_in[m] = "none"
                                   /\ Phase(m) \in CancellablePhases
                                THEN Phase(m) ELSE stopped_in[m]]
       ELSE /\ Handled(l, <<Event("warning", "No active mission to stop", 0)>>)
            /\ UNCHANGED <<is_mission_active, vehicle, stopped_in>>

\* An emergency_land that does not look at vehicle.armed.
EmergencyLandUnchecked(l) ==
    /\ dispatcher = "read"
    /\ Command(l) = "emergency_land"
    /\ vehicle # None
    /\ NoSpawn
    /\ UNCHANGED <<is_mission_active, current_mission, stopped_in>>
    /\ vehicle' = [vehicle EXCEPT !.mode = "LAND"]
    /\ Handled(l, <<Event("status", "Emergency landing initiated", 0)>>)

\* command == "emergency_land", lines 467-470.
EmergencyLand(l) ==
    /\ dispatcher = "read"
    /\ Command(l) = "emergency_land"
    /\ NoSpawn
    /\ UNCHANGED <<is_mission_active, current_mission, stopped_in>>
    /\ IF vehicle # None /\ vehicle.armed
       THEN /\ vehicle' = [vehicle EXCEPT !.mode = "LAND"]
            /\ Handled(l, <<Event("status", "Emergency landing initiated", 0)>>)
       ELSE /\ UNCHANGED vehicle
            /\ Handled(l, <<>>)

\* command == "get_status", lines 472-479.
GetStatus(l) ==
    /\ dispatcher = "read"
    /\ Command(l) = "get_status"
    /\ NoSpawn
    /\ UNCHANGED <<vehicle, is_mission_active, current_mission, stopped_in>>
    /\ Handled(l, <<Event("vehicle_status",
                       IF vehicle # None THEN vehicle.mode ELSE "Unknown",
                       IF is_mission_active THEN 1 ELSE 0)>>)

\* command == "shutdown", lines 481-487: os._exit(0).
Shutdown(l) ==
    /\ dispatcher = "read"
    /\ Command(l) = "shutdown"
    /\ dispatcher' = "exit"
    /\ Sent(l, <<Event("status", "Shutting down simulation...", 0)>>)
    /\ UNCHANGED <<vehicle, is_mission_active, current_mission, turf_available,
                   mission_task, pc, mission_locals, log, stopped_in, watch,
                   previous_position, waited, telemetry_vars>>

\* A line no branch of the if/elif chain takes, and a line whose handling
\* raises: lines 432-436 and 489-492.
OtherLine(l) ==
    /\ dispatcher = "read"
    /\ Command(l) \notin {"start_mission", "stop_mission", "emergency_land",
                            "get_status", "shutdown"}
    /\ NoSpawn
    /\ UNCHANGED <<vehicle, is_mission_active, current_mission, stopped_in>>
    /\ Handled(l, CASE Command(l) = "JSONDecodeError" ->
                      <<Event("error", "Invalid JSON message received from backend", 0)>>
                 [] Command(l) = "AttributeError" ->
                      <<Event("error", "Command processing error", 0)>>
                 [] OTHER -> <<>>)


\* --------------------------------------------------- execute_mission, thread m
\* What a step of thread m leaves untouched whatever it does.
MissionMove(m, next, events) ==
    /\ pc' = [pc EXCEPT ![m] = next]
    /\ log' = CASE watch = "missions" ->
                     [log EXCEPT ![m] = @ \o SelectSeq(events, IsReport)]
                [] watch \in {"events", "telemetry"} ->
                     [log EXCEPT ![m] = @ \o events]
                [] OTHER -> log
    /\ UNCHANGED <<turf_available, dispatcher_vars, mission_task, stopped_in, watch,
                   telemetry_vars>>

\* What a step of thread m leaves untouched unless it says otherwise.
MissionStep(m, next, events) ==
    /\ MissionMove(m, next, events)
    /\ UNCHANGED <<previous_position, waited>>

\* `return` inside the try block, and the end of it: the finally clause is next.
Return(m, events) == MissionStep(m, "finally", events)

\* An except clause that reports the exception and leaves the mode alone.
ExceptKeepsMode(m, events, error) ==
    /\ MissionMove(m, "finally", events \o <<Event("error", error, 0)>>)
    /\ waited' = [waited EXCEPT ![m] = 0]
    /\ UNCHANGED <<vehicle, is_mission_active, current_mission, mission_locals,
                   previous_position>>

\* Lines 366-369: an exception inside the try block is reported with its
\* text and RTL is set if there is a vehicle; the finally clause is next.
Except(m, events, error) ==
    /\ vehicle' = IF vehicle # None THEN [vehicle EXCEPT !.mode = "RTL"] ELSE vehicle
    /\ MissionMove(m, "finally", events \o <<Event("error", error, 0)>>)
    /\ waited' = [waited EXCEPT ![m] = 0]
    /\ UNCHANGED <<is_mission_active, current_mission, mission_locals,
                   previous_position>>

\* The texts of the exceptions the try block raises on its own.
NotArmable == "Mission error: Vehicle not armable after 30s timeout"
NoMission == "Mission error: 'NoneType' object has no attribute"
TurfRaised == "Mission error: turf"

\* A finally clause that clears the flag and keeps current_mission.
FinallyKeepsMission(m) ==
    /\ Running /\ pc[m] = "finally"
    /\ is_mission_active' = FALSE
    /\ pc' = [pc EXCEPT ![m] = "done"]
    /\ mission_data' = [mission_data EXCEPT ![m] = NoData]
    /\ survey_points' = [survey_points EXCEPT ![m] = <<>>]
    /\ i' = [i EXCEPT ![m] = 0]
    /\ log' = [log EXCEPT ![m] = <<>>]
    /\ stopped_in' = [stopped_in EXCEPT ![m] = "none"]
    /\ previous_position' = [previous_position EXCEPT ![m] = None]
    /\ UNCHANGED waited
    /\ UNCHANGED <<vehicle, current_mission, turf_available, dispatcher_vars,
                   mission_task, watch, telemetry_vars>>

\* Lines 370-372, the finally clause, and the end of the thread: its locals
\* and the record of what it sent go with it.
Finally(m) ==
    /\ Running /\ pc[m] = "finally"
    /\ is_mission_active' = FALSE
    /\ current_mission' = None
    /\ pc' = [pc EXCEPT ![m] = "done"]
    /\ mission_data' = [mission_data EXCEPT ![m] = NoData]
    /\ survey_points' = [survey_points EXCEPT ![m] = <<>>]
    /\ i' = [i EXCEPT ![m] = 0]
    /\ log' = [log EXCEPT ![m] = <<>>]
    /\ stopped_in' = [stopped_in EXCEPT ![m] = "none"]
    /\ previous_position' = [previous_position EXCEPT ![m] = None]
    /\ UNCHANGED waited
    /\ UNCHANGED <<vehicle, turf_available, dispatcher_vars, mission_task, watch,
                   telemetry_vars>>

\* A round of a wait loop that ends in time.sleep(...): nothing changes.
Sleep == UNCHANGED vars

\* A step that stays inside the function and touches no global.
Local(m, next, events) ==
    /\ MissionStep(m, next, events)
    /\ UNCHANGED <<vehicle, is_mission_active, current_mission, mission_locals>>

\* Lines 216-266: the connection guard, the flag and a fresh MissionState,
\* the survey pattern, the area estimate and mission_info.  raises tells
\* whether a call of turf raises on the way; an empty waypoint list returns
\* before any such call.
Begin(m) ==
    /\ Running /\ pc[m] = "spawned"
    /\ IF vehicle = None
       \* lines 216-218 stand before the try block: no finally clause runs
       THEN /\ MissionStep(m, "done",
                           <<Event("error", "Cannot start mission, vehicle not connected.", 0)>>)
            /\ UNCHANGED <<vehicle, is_mission_active, current_mission, mission_locals>>
       ELSE
       LET d == mission_data[m]
           g == generate_survey_pattern(d.waypoints, FeetToMeters(d.altitude),
                                        d.enhanced3d, turf_available)
           started == <<Event("status", "Generating survey pattern...", 0)>>
       IN  \E raises \in {FALSE, turf_available /\ d.waypoints # <<>>} :
           IF g.raised \/ raises
           \* raised after lines 221-222 have run
           THEN /\ vehicle' = [vehicle EXCEPT !.mode = "RTL"]
                /\ is_mission_active' = TRUE
                /\ current_mission' = MissionState(m)
                /\ Return(m, started \o g.events \o <<Event("error", TurfRaised, 0)>>)
                /\ UNCHANGED mission_locals
           ELSE IF g.points = <<>>
           \* lines 234-237: the flag is cleared, `return` runs the finally clause
           THEN /\ is_mission_active' = FALSE
                /\ current_mission' = MissionState(m)
                /\ Return(m, started \o g.events
                               \o <<Event("error", "Failed to generate survey pattern", 0)>>)
                /\ UNCHANGED <<vehicle, mission_locals>>
           ELSE /\ is_mission_active' = TRUE
                /\ current_mission' = MissionState(m)
                /\ survey_points' = [survey_points EXCEPT ![m] = g.points]
                /\ MissionStep(m, "preflight_wait",
                      started \o g.events
                      \o <<Event("mission_info", "total_waypoints", Len(g.points)),
                           Event("status", "Pre-flight checks...", 0)>>)
                /\ UNCHANGED <<vehicle, mission_data, i>>

\* time.time() - start_time as line 270 reads it: the seconds that went by
\* in the sleeps of the wait, where the run keeps them, and else any time
\* short of the timeout or the timeout.
Clock(m) == IF watch = "events" THEN {waited[m]} ELSE {0, PreflightTimeout}

\* Lines 270-278: one round of the armable wait and, when the loop ends, the
\* check of line 273, GUIDED and the arm request.  A sleep of the wait takes
\* a second or more.  vehicle.is_armable is read by the loop (line 270) and
\* again by line 273, which tests it and not the clock.
PreflightWait(m) ==
    /\ Running /\ pc[m] = "preflight_wait"
    /\ \E is_armable \in BOOLEAN, now \in Clock(m) :
          IF ~is_armable /\ now < PreflightTimeout
          \* time.sleep(1)
          THEN /\ waited' \in IF watch = "events"
                              THEN {[waited EXCEPT ![m] = later] :
                                       later \in now + 1 .. PreflightTimeout}
                              ELSE {waited}
               /\ MissionMove(m, pc[m], <<>>)
               /\ UNCHANGED <<vehicle, is_mission_active, current_mission,
                              mission_locals, previous_position>>
          ELSE \E still_armable \in BOOLEAN :
          IF ~still_armable
          \* raise Exception("Vehicle not armable after 30s timeout")
          THEN Except(m, <<>>, NotArmable)
          ELSE /\ vehicle' = [vehicle EXCEPT !.mode = "GUIDED",
                                             !.arm_requested = ~vehicle.armed]
               /\ MissionMove(m, "arm_wait", <<Event("status", "Arming vehicle...", 0)>>)
               /\ waited' = [waited EXCEPT ![m] = 0]
               /\ UNCHANGED <<is_mission_active, current_mission, mission_locals,
                              previous_position>>

\* Lines 280-287: one round of the arm wait and, when the loop ends, a silent
\* return if the flag is cleared, else the takeoff.
Arming(m) ==
    /\ Running /\ pc[m] = "arm_wait"
    /\ IF ~vehicle.armed /\ is_mission_active
       THEN Sleep
       ELSE IF ~is_mission_active
       THEN /\ Return(m, <<>>)
            /\ UNCHANGED <<vehicle, is_mission_active, current_mission, mission_locals>>
       ELSE Local(m, "takeoff_wait", <<Event("status", "Taking off", 0)>>)

\* Lines 289-298: one round of the climb wait and, when the loop ends, the
\* cancellation during takeoff or the start of the survey.
TakingOff(m) ==
    /\ Running /\ pc[m] = "takeoff_wait"
    /\ \E alt_reached \in BOOLEAN :
       IF ~alt_reached /\ is_mission_active
       THEN Sleep
       ELSE IF ~is_mission_active
       THEN /\ vehicle' = [vehicle EXCEPT !.mode = "RTL"]
            /\ Return(m, <<Event("status", "Mission cancelled during takeoff", 0)>>)
            /\ UNCHANGED <<is_mission_active, current_mission, mission_locals>>
       \* line 297: previous_position = vehicle.location.global_relative_frame
       ELSE \E p \in Positions :
            /\ previous_position' =
                  IF watch = "telemetry"
                  THEN [previous_position EXCEPT ![m] = p] ELSE previous_position
            /\ MissionMove(m, "for_loop",
                  <<Event("status", "Takeoff complete, starting survey...", 0)>>)
            /\ UNCHANGED <<vehicle, is_mission_active, current_mission, mission_locals,
                           waited>>

\* Lines 347-360, after the for loop: the terminal report, then RTL.
AfterLoop(m) ==
    IF is_mission_active /\ current_mission = None
    \* current_mission.start_time on None: AttributeError
    THEN Except(m, <<>>, NoMission)
    ELSE /\ vehicle' = [vehicle EXCEPT !.mode = "RTL"]
         /\ MissionStep(m, "rtl_wait",
               IF is_mission_active
               THEN <<Event("mission_complete", "photos_taken", current_mission.photos_taken),
                      Event("status", "Mission complete - returning to launch", 0)>>
               ELSE <<Event("status", "Mission cancelled - returning to launch", 0)>>)
         /\ UNCHANGED <<is_mission_active, current_mission, mission_locals>>

\* The survey point of index i[m].
Point(m) == survey_points[m][i[m] + 1]

\* Lines 300-312: the head of the for loop and the go-to of point i.
ForLoop(m) ==
    /\ Running /\ pc[m] = "for_loop"
    /\ IF i[m] >= Len(survey_points[m]) \/ ~is_mission_active
       THEN AfterLoop(m)
       ELSE
       LET progress == <<Event("status", "Flying to survey point", i[m] + 1),
                         Event("waypoint_progress", "current", i[m] + 1)>>
       IN  IF current_mission = None
           \* current_mission.flight_speed on None: AttributeError
           THEN Except(m, progress, NoMission)
           ELSE Local(m, "arrival_wait", progress)

\* Lines 315-345: one round of the arrival wait and, when the loop ends, the
\* break if the flag is cleared, else the photo of point i.
Surveying(m) ==
    /\ Running /\ pc[m] = "arrival_wait"
    /\ \E arrived \in BOOLEAN :
       IF ~is_mission_active
       THEN AfterLoop(m)
       ELSE IF current_mission = None
       \* current_mission.distance_flown += ... on None: AttributeError
       THEN Except(m, <<>>, NoMission)
       ELSE
       \* lines 320-327: the position sampled, the segment flown since the
       \* last one, and distance_flown with the segment added
       \E p \in Positions :
       LET segment == IF watch = "telemetry"
                      THEN calculate_distance(previous_position[m], p) ELSE 0
           flown == [current_mission EXCEPT !.distance_flown = @ + segment,
                                            !.sampled = @ + segment]
       IN  /\ flown.distance_flown <= MaxDistance /\ flown.sampled <= MaxDistance
           /\ UNCHANGED waited
           /\ previous_position' =
                 IF watch = "telemetry"
                 THEN [previous_position EXCEPT ![m] = p] ELSE previous_position
           /\ IF ~arrived
              THEN /\ current_mission' = flown
                   /\ MissionMove(m, pc[m], <<>>)
                   /\ UNCHANGED <<vehicle, is_mission_active, mission_locals>>
              ELSE /\ i' = [i EXCEPT ![m] = @ + 1]
                   /\ UNCHANGED <<vehicle, is_mission_active, mission_data, survey_points>>
                   /\ IF PointAction(Point(m)) = "photo"
                      THEN /\ current_mission' = [flown EXCEPT !.photos_taken = @ + 1]
                           /\ MissionMove(m, "for_loop",
                                 <<Event("photo_taken", "photo_number",
                                         current_mission.photos_taken + 1)>>)
                      ELSE /\ current_mission' = flown
                           /\ MissionMove(m, "for_loop", <<>>)

\* Lines 361-372: one round of the landing wait and, when the loop ends,
\* simulation_end and the finally clause.
ReturningToLaunch(m) ==
    /\ Running /\ pc[m] = "rtl_wait"
    /\ IF vehicle.armed /\ is_mission_active
       THEN Sleep
       ELSE /\ Return(m, <<Event("simulation_end", "Landing complete", 0)>>)
            /\ UNCHANGED <<vehicle, is_mission_active, current_mission, mission_locals>>

\* A call of the vehicle interface raises: the places where the next
\* statement of thread m makes such a call.
Raise(m) ==
    /\ Running
    /\ pc[m] \in {"preflight_wait", "arm_wait", "takeoff_wait", "for_loop",
                  "arrival_wait", "rtl_wait"}
    /\ Except(m, <<>>, VehicleFailure)

\* ------------------------------------------------------ the vehicle itself
\* What the flight controller does on its own; the program only reads it.
VehicleStep(v) ==
    /\ Running /\ vehicle # None
    /\ vehicle' = v
    /\ UNCHANGED <<is_mission_active, current_mission, turf_available,
                   dispatcher_vars, mission_task, pc, mission_locals, log,
                   stopped_in, watch, previous_position, waited, telemetry_vars>>

\* The arm request of `vehicle.armed = True` is carried out.
VehicleArms ==
    /\ vehicle # None /\ vehicle.arm_requested /\ ~vehicle.armed
    /\ VehicleStep([vehicle EXCEPT !.armed = TRUE, !.arm_requested = FALSE])

\* In RTL or LAND the vehicle comes down and disarms.
VehicleLands ==
    /\ vehicle # None /\ vehicle.armed /\ vehicle.mode \in {"RTL", "LAND"}
    /\ VehicleStep([vehicle EXCEPT !.armed = FALSE])

\* ------------------------------------------------------- stream_telemetry
\* What a step of stream_telemetry leaves untouched.
TelemetryStep(next, events) ==
    /\ telemetry' = next
    /\ sent' = events
    /\ UNCHANGED <<vehicle, is_mission_active, turf_available, dispatcher_vars,
                   mission_task, pc, mission_locals, log, stopped_in, watch,
                   previous_position, waited>>

\* Lines 422-424: the except clause of the loop reports the exception and the
\* loop goes on with the next tick; previous_position keeps its value.
TelemetryExcept(events, error) ==
    /\ TelemetryStep([telemetry EXCEPT !.pc = "tick", !.location = None,
                                       !.distance = 0, !.object = 0, !.loaded = 0],
                     events \o <<Event("error", error, 0)>>)
    /\ UNCHANGED current_mission

TelemetryNoMission == "Telemetry thread error: 'NoneType' object has no attribute"
TelemetryVehicleFailure == "Telemetry thread error: vehicle interface"

\* Lines 401-420: previous_position = location, the telemetry data, the
\* check of line 412 and, unless the mission status is to be read first,
\* the telemetry event.
TelemetryReport(after) ==
    LET t == [after EXCEPT !.previous_position = after.location,
                           !.distance = 0, !.object = 0, !.loaded = 0]
    IN  IF is_mission_active /\ current_mission # None
        THEN TelemetryStep([t EXCEPT !.pc = "enrich"], <<>>)
        ELSE TelemetryStep([t EXCEPT !.pc = "tick", !.location = None],
                           <<Event("telemetry", "position", 0)>>)

\* Lines 401-409 and 422-424: previous_position = location, then a read of
\* the vehicle for the telemetry data raises.
TelemetryFails(after) ==
    TelemetryStep([after EXCEPT !.previous_position = after.location,
                                !.pc = "tick", !.location = None,
                                !.distance = 0, !.object = 0, !.loaded = 0],
                  <<Event("error", TelemetryVehicleFailure, 0)>>)

\* The head of a tick as it would be without the armed test of line 383:
\* any connected vehicle is sampled.
TelemetryTickUnchecked ==
    /\ Running /\ telemetry.pc = "tick"
    /\ UNCHANGED current_mission
    /\ IF vehicle = None
       THEN TelemetryStep(telemetry, <<>>)
       ELSE \E p \in Positions :
            IF /\ telemetry.previous_position # None
               /\ is_mission_active /\ current_mission # None
            THEN TelemetryStep(
                    [telemetry EXCEPT
                        !.pc = "accumulate", !.location = p,
                        !.distance = calculate_distance(telemetry.previous_position, p)],
                    <<>>)
            ELSE TelemetryReport([telemetry EXCEPT !.location = p])

\* Lines 381-399: the head of a tick.  Without an armed vehicle the tick
\* sends nothing; with one it samples the position and, during a mission,
\* computes the distance from the previous one.
TelemetryTick ==
    /\ Running /\ telemetry.pc = "tick"
    /\ UNCHANGED current_mission
    /\ IF vehicle = None \/ ~vehicle.armed
       THEN TelemetryStep(telemetry, <<>>)
       ELSE \E p \in Positions :
            IF /\ telemetry.previous_position # None
               /\ is_mission_active /\ current_mission # None
            THEN TelemetryStep(
                    [telemetry EXCEPT
                        !.pc = "accumulate", !.location = p,
                        !.distance = calculate_distance(telemetry.previous_position, p)],
                    <<>>)
            ELSE TelemetryReport([telemetry EXCEPT !.location = p])

\* Line 400, the read of current_mission.distance_flown += distance.
TelemetryLoad ==
    /\ Running /\ telemetry.pc = "accumulate"
    /\ IF current_mission = None
       THEN TelemetryExcept(sent, TelemetryNoMission)
       ELSE /\ current_mission.distance_flown + telemetry.distance <= MaxDistance
            /\ TelemetryStep([telemetry EXCEPT
                                 !.pc = "store",
                                 !.object = current_mission.owner,
                                 !.loaded = current_mission.distance_flown], sent)
            /\ UNCHANGED current_mission

\* Line 400, the write: the sum goes to the MissionState that was read,
\* which may no longer be the current one.  Then lines 401-420, where a
\* read of the vehicle may raise.
TelemetryStore ==
    /\ Running /\ telemetry.pc = "store"
    /\ current_mission' =
          IF current_mission # None /\ current_mission.owner = telemetry.object
          THEN [current_mission EXCEPT
                   !.distance_flown = telemetry.loaded + telemetry.distance]
          ELSE current_mission
    /\ TelemetryReport(telemetry) \/ TelemetryFails(telemetry)

\* Lines 413-420: the mission status read from current_mission, and the
\* telemetry event that carries it.
TelemetryEnrich ==
    /\ Running /\ telemetry.pc = "enrich"
    /\ IF current_mission = None
       THEN TelemetryExcept(sent, TelemetryNoMission)
       ELSE /\ TelemetryStep([telemetry EXCEPT !.pc = "tick", !.location = None],
                             sent \o <<Event("telemetry", "mission_status",
                                              current_mission.current_waypoint)>>)
            /\ UNCHANGED current_mission

\* A read of the vehicle raises in a tick that found it armed: while the
\* tick samples it (lines 384-391), or, in a tick that adds no distance,
\* while the telemetry data are put together (lines 403-409).
TelemetryRaise ==
    /\ Running /\ telemetry.pc = "tick"
    /\ vehicle # None /\ vehicle.armed
    /\ \/ TelemetryExcept(<<>>, TelemetryVehicleFailure)
       \/ /\ ~(/\ telemetry.previous_position # None
                /\ is_mission_active /\ current_mission # None)
          /\ \E p \in Positions : TelemetryFails([telemetry EXCEPT !.location = p])
          /\ UNCHANGED current_mission

\* ------------------------------------------------------- the specification
Next ==
    \/ \E l \in Lines : StartMission(l)
    \/ \E l \in Lines : StopMission(l)
    \/ \E l \in Lines : EmergencyLand(l)
    \/ \E l \in Lines : GetStatus(l)
    \/ \E l \in Lines : Shutdown(l)
    \/ \E l \in Lines : OtherLine(l)
    \/ \E m \in Runs :
          \/ Begin(m)
          \/ PreflightWait(m)
          \/ Arming(m)
          \/ TakingOff(m)
          \/ ForLoop(m)
          \/ Surveying(m)
          \/ ReturningToLaunch(m)
          \/ Raise(m)
          \/ Finally(m)
    \/ VehicleArms
    \/ VehicleLands

Spec == Init /\ [][Next]_vars

SpecCommands == InitCommands /\ [][Next]_vars

\* The runs that follow stream_telemetry beside the rest.
NextTelemetry ==
    \/ Next
    \/ TelemetryTick
    \/ TelemetryLoad
    \/ TelemetryStore
    \/ TelemetryEnrich
    \/ TelemetryRaise

SpecTelemetry == InitTelemetry /\ [][NextTelemetry]_vars

\* The runs that keep every event of the missions, and the clock of the
\* armable wait.
SpecEvents == InitEvents /\ [][Next]_vars

\* Lines 232 and 110-210: generate_survey_pattern(waypoints, altitude,
\* enhanced_3d) called on its own with the arguments of call m; the list it
\* returns, the events it sends, and whether it returned or raised.
Generate(m) ==
    /\ watch = "pattern" /\ pc[m] = "idle"
    /\ LET d == mission_data[m]
           g == generate_survey_pattern(d.waypoints, FeetToMeters(d.altitude),
                                        d.enhanced3d, turf_available)
       IN  /\ survey_points' = [survey_points EXCEPT ![m] = g.points]
           /\ log' = [log EXCEPT ![m] = g.events]
           /\ pc' = [pc EXCEPT ![m] = IF g.raised THEN "raised" ELSE "returned"]
    /\ UNCHANGED <<vehicle, is_mission_active, current_mission, turf_available,
                   dispatcher_vars, mission_task, mission_data, i, stopped_in,
                   watch, previous_position, waited, telemetry_vars>>

NextPattern == \E m \in Runs : Generate(m)

\* generate_survey_pattern applied to every polygon of the bounded set.
SpecPattern == InitPattern /\ [][NextPattern]_vars

\* ------------------------------------------------------------- the claims
\* The events that tell how run m ended, in order: its terminal events and
\* its simulation_end.
Outcome(m) == SelectSeq(log[m], LAMBDA e : IsTerminal(e) \/ e.type = "simulation_end")

\* No call of the vehicle interface has raised in run m.
VehicleHeld(m) == \A k \in DOMAIN log[m] : log[m][k].msg # VehicleFailure

\* C1: in every reachable state at most one execute_mission run is in
\* progress (spawned and not yet returned).
AtMostOneMission == Cardinality({m \in Runs : InProgress(m)}) <= 1

\* C2: a start_mission handled while is_mission_active is true spawns no
\* thread, emits exactly one event, an error, and leaves is_mission_active,
\* current_mission and the vehicle (its mode included) unchanged.
StartWhileActive ==
    [][\A l \in Lines :
          StartMission(l) /\ is_mission_active =>
             /\ mission_task' = mission_task /\ pc' = pc
             /\ Len(out') = 1 /\ CountType(out', "error") = 1
             /\ UNCHANGED <<is_mission_active, current_mission, vehicle>>]_vars

\* C2, its case: the dispatcher has just refused a start_mission while a run
\* that raised the flag is in progress.
StartRefused ==
    /\ out = <<Event("error", "Mission already in progress", 0)>>
    /\ is_mission_active
    /\ mission_task = 1 /\ InProgress(1)

\* C3: a run that got past the vehicle-connected guard returns with
\* is_mission_active false and current_mission None, whichever way it ends.
ReturnClearsMission ==
    [][\A m \in Runs :
          pc[m] \notin {"idle", "spawned", "done"} /\ pc'[m] = "done" =>
             ~is_mission_active' /\ current_mission' = None]_vars

\* C3, its case: a run has returned while the other one, which raised the
\* flag after it, is still in flight; the flag and current_mission are clear.
ReturnedUnderOther ==
    /\ pc[1] = "done" /\ pc[2] = "arrival_wait"
    /\ ~is_mission_active /\ current_mission = None

\* C4: once a stop_mission has cleared the flag under run m, a run over a
\* polygon of 3 vertices or more, in one of the phases PreflightWait, Arming,
\* TakingOff, Surveying, the next move of m is into a terminal state (the
\* return to launch, or its exit), and m reports no error of its own making
\* from then on.
CancelWithinOnePoll ==
    [][\A m \in Runs :
          /\ stopped_in[m] # "none" /\ pc'[m] # pc[m]
          /\ Len(mission_data[m].waypoints) >= MinVertices
          =>
             /\ pc'[m] \in {"rtl_wait", "finally", "done"}
             /\ \A k \in DOMAIN log'[m] :
                   k > Len(log[m]) /\ log'[m][k].type = "error"
                      => log'[m][k].msg = VehicleFailure]_vars

\* C5: a run over a polygon of 3 vertices or more, under which stop_mission
\* cleared the flag while it was in the Surveying phase, and whose vehicle
\* calls all went through, ends having
\* sent exactly one cancellation status and then exactly one simulation_end,
\* and no mission_complete.
StopDuringSurvey ==
    \A m \in Runs :
       /\ pc[m] = "finally" /\ stopped_in[m] = "Surveying" /\ VehicleHeld(m)
       /\ Len(mission_data[m].waypoints) >= MinVertices
       =>
          Outcome(m) = <<Event("status", "Mission cancelled - returning to launch", 0),
                         Event("simulation_end", "Landing complete", 0)>>

\* C6: a run that created mission state has, when it reaches its exit, sent
\* exactly one terminal event and then simulation_end, which is the last
\* event it sent.
OneTerminalThenEnd ==
    \A m \in Runs :
       pc[m] = "finally" =>
          /\ Len(Outcome(m)) = 2
          /\ IsTerminal(Outcome(m)[1])
          /\ Outcome(m)[2].type = "simulation_end"
          /\ log[m][Len(log[m])].type = "simulation_end"

\* C7: a stop_mission handled while is_mission_active is true clears the
\* flag and sets the vehicle mode to RTL; handled while it is false it sends
\* one warning and no error and changes neither the flag nor the vehicle.
StopContract ==
    [][\A l \in Lines :
          StopMission(l) =>
             IF is_mission_active
             THEN /\ ~is_mission_active'
                  /\ vehicle' # None /\ vehicle'.mode = "RTL"
             ELSE /\ Len(out') = 1 /\ CountType(out', "warning") = 1
                  /\ UNCHANGED <<is_mission_active, vehicle>>]_vars

\* C7, its case: a stop_mission has just cleared the flag under a run in
\* flight, and the vehicle, which was in GUIDED, is in RTL.
StoppedInFlight ==
    /\ out = <<Event("status", "Stopping mission...", 0)>>
    /\ ~is_mission_active
    /\ pc[1] = "arrival_wait"
    /\ vehicle.mode = "RTL"

\* C8: an emergency_land handled while the vehicle is armed sets the mode to
\* LAND and leaves is_mission_active and current_mission unchanged; handled
\* while there is no vehicle or it is not armed, it sends nothing and changes
\* nothing.
EmergencyLandContract ==
    [][\A l \in Lines :
          EmergencyLand(l) =>
             IF vehicle # None /\ vehicle.armed
             THEN /\ vehicle'.mode = "LAND"
                  /\ UNCHANGED <<is_mission_active, current_mission>>
             ELSE /\ out' = <<>>
                  /\ UNCHANGED <<vehicle, is_mission_active, current_mission,
                                 mission_task, pc>>]_vars

\* C8, its case: an emergency_land has just put the armed vehicle of a run
\* in flight into LAND, and the run is still active.
LandedInFlight ==
    /\ out = <<Event("status", "Emergency landing initiated", 0)>>
    /\ vehicle.mode = "LAND" /\ vehicle.armed
    /\ is_mission_active /\ current_mission # None

\* C9: for every line that is not JSON, or is JSON with no "command", the
\* dispatcher sends at least one error event and goes on reading.
BadLineReported ==
    [][\A l \in Lines :
          OtherLine(l) /\ (~l.json \/ l.command = "None") =>
             CountType(out', "error") >= 1 /\ dispatcher' = "read"]_vars

\* C10: where turf is not installed, a run whose waypoint list has fewer than
\* 3 vertices holds no survey points and never gets to request the arming,
\* to take off or to fly to a point.
TooFewVerticesNeverFlies ==
    \A m \in Runs :
       /\ ~turf_available
       /\ InProgress(m) /\ pc[m] # "spawned"
       /\ Len(mission_data[m].waypoints) < MinVertices
       => /\ survey_points[m] = <<>>
          /\ pc[m] \notin {"arm_wait", "takeoff_wait", "for_loop", "arrival_wait",
                           "rtl_wait"}

\* The steps of stream_telemetry, and the steps of the dispatcher.
TelemetrySteps ==
    TelemetryTick \/ TelemetryLoad \/ TelemetryStore \/ TelemetryEnrich \/ TelemetryRaise
DispatcherSteps ==
    \E l \in Lines : \/ StartMission(l) \/ StopMission(l) \/ EmergencyLand(l)
                     \/ GetStatus(l) \/ Shutdown(l) \/ OtherLine(l)
HasType(events, type) == \E k \in DOMAIN events : events[k].type = type

\* C11: while a mission state is live, its distance_flown is the sum of the
\* distances between the consecutive positions that the arrival loop of its
\* run has sampled, whatever the telemetry thread did in between.
DistanceIsSampledSum ==
    current_mission # None => current_mission.distance_flown = current_mission.sampled

\* C12: a step of the telemetry publisher or of the command dispatcher leaves
\* every field of the live MissionState as it was.
OnlyMissionWritesState ==
    [][(TelemetrySteps \/ DispatcherSteps) /\ current_mission # None
          => current_mission' = current_mission]_vars

\* C13: the telemetry publisher never sends the error of an attribute read
\* or written on a current_mission that is None.
TeardownNeverFailsTelemetry ==
    \A k \in DOMAIN sent : sent[k].msg # TelemetryNoMission

\* C14: a tick that finds no vehicle, or an unarmed one, sends nothing and
\* leaves the loop at the head of the next tick; the position is sampled,
\* and a telemetry event sent, only by a tick that found the vehicle armed;
\* a read of the vehicle that raises, at the head of a tick or after the
\* distance was added, sends one error event and leaves the loop at the
\* head of the next tick; and a tick that finds the vehicle armed, after an
\* error as at any other time, sends the telemetry event or goes on to the
\* mission's part of the same tick.
TelemetryLoopGoesOn ==
    [][/\ TelemetryTick /\ (vehicle = None \/ ~vehicle.armed)
          => sent' = <<>> /\ telemetry'.pc = "tick"
       /\ TelemetrySteps /\ telemetry.location = None
            /\ (telemetry'.location # None \/ (HasType(sent', "telemetry") /\ telemetry' # telemetry))
          => vehicle # None /\ vehicle.armed
       /\ TelemetrySteps /\ HasType(sent', "telemetry") /\ telemetry.location = None
          => telemetry.pc = "tick"
       /\ TelemetryRaise \/ (TelemetryStore /\ HasType(sent', "error"))
          => /\ sent' = <<Event("error", TelemetryVehicleFailure, 0)>>
             /\ telemetry'.pc = "tick"
       /\ TelemetryTick /\ vehicle # None /\ vehicle.armed
          => \/ sent' = <<Event("telemetry", "position", 0)>> /\ telemetry'.pc = "tick"
             \/ sent' = <<>> /\ telemetry'.pc \in {"accumulate", "enrich"}
    ]_vars

\* C14, its case: a read of the armed vehicle has raised, the error event is
\* the last thing sent, and the loop is at the head of a tick with the
\* vehicle still armed.
TickAfterSamplingError ==
    /\ sent = <<Event("error", TelemetryVehicleFailure, 0)>>
    /\ telemetry.pc = "tick"
    /\ vehicle # None /\ vehicle.armed

\* The events thread m sends in the step, in the runs that keep them.
Sends(m) == SubSeq(log'[m], Len(log[m]) + 1, Len(log'[m]))

\* C15: a run over a polygon of 3 vertices or more that leaves its landing
\* wait and sends simulation_end does so with the vehicle disarmed, whether
\* or not the flag was cleared meanwhile.
EndOnlyWhenLanded ==
    [][\A m \in Runs :
          /\ pc[m] = "rtl_wait" /\ pc'[m] = "finally"
          /\ Len(mission_data[m].waypoints) >= MinVertices
          /\ HasType(Sends(m), "simulation_end")
          => ~vehicle.armed]_vars

\* C18: a run over a polygon of 3 vertices or more, under which stop_mission
\* cleared the flag during its armable wait, leaves that wait for its exit
\* only: the step sets no GUIDED mode, requests no arming and reports no
\* armable timeout.
StoppedPreflightNeverArms ==
    [][\A m \in Runs :
          /\ stopped_in[m] = "PreflightWait" /\ pc[m] = "preflight_wait"
          /\ Len(mission_data[m].waypoints) >= MinVertices
          /\ pc'[m] # pc[m]
          => /\ pc'[m] = "finally"
             /\ vehicle'.mode # "GUIDED"
             /\ vehicle'.arm_requested = vehicle.arm_requested
             /\ \A k \in DOMAIN Sends(m) : Sends(m)[k].msg # NotArmable]_vars

\* The last event of a sequence is the error with the given text.
EndsWith(events, error) ==
    events # <<>> /\ events[Len(events)] = Event("error", error, 0)

\* C16: a call of the vehicle interface that raises in run m makes the run
\* send one error event, sets the mode to RTL where there is a vehicle and
\* takes the run to its finally clause, leaving the dispatcher and the
\* telemetry loop as they were and running; and from its except clause on a
\* run sends no event at all, so no waypoint_progress, photo_taken or
\* mission_complete.
FailureAbortsMissionOnly ==
    [][\A m \in Runs :
          /\ Raise(m)
             => /\ Sends(m) = <<Event("error", VehicleFailure, 0)>>
                /\ vehicle # None => vehicle'.mode = "RTL"
                /\ pc'[m] = "finally"
                /\ UNCHANGED <<dispatcher_vars, telemetry_vars>>
                /\ Running'
          /\ pc[m] \in {"finally", "done"} => Sends(m) = <<>>]_vars

\* C16, its case: a vehicle call has raised in a run that had started its
\* survey; the run is in its finally clause and the telemetry loop is in
\* the middle of a tick.
FailedInSurvey ==
    \E m \in Runs :
        /\ pc[m] = "finally" /\ EndsWith(log[m], VehicleFailure)
        /\ HasType(log[m], "waypoint_progress")
        /\ vehicle.mode = "RTL"
        /\ telemetry.pc # "tick"

\* C17: every round of the armable wait that goes to sleep sends a status
\* event.
EveryPollReports ==
    [][\A m \in Runs :
          /\ pc[m] = "preflight_wait" /\ pc'[m] = "preflight_wait"
          /\ waited'[m] # waited[m]
          => HasType(Sends(m), "status")]_vars

\* C19: a step of run m in its armable wait is one of these.  A sleep: the
\* clock moves on, and not past the timeout.  The timeout: with 30 s on the
\* clock the run sends one error event, the armable timeout, and goes to
\* its finally clause, the mode being RTL and no arming requested by the
\* step.  A vehicle call that raised.  Or the vehicle was found armable:
\* the run goes on to the arm wait in GUIDED mode.  So the wait is over
\* within 30 s, and it fails with the timeout only when the 30 s are over.
PreflightWaitBounded ==
    [][\A m \in Runs :
          pc[m] = "preflight_wait" /\ (pc'[m] # pc[m] \/ waited'[m] # waited[m])
          => \/ /\ pc'[m] = "preflight_wait"
                /\ waited[m] < waited'[m] /\ waited'[m] <= PreflightTimeout
                /\ vehicle' = vehicle
             \/ /\ pc'[m] = "finally"
                /\ waited[m] = PreflightTimeout
                /\ Sends(m) = <<Event("error", NotArmable, 0)>>
                /\ vehicle'.mode = "RTL"
                /\ vehicle'.arm_requested = vehicle.arm_requested
             \/ /\ pc'[m] = "finally"
                /\ Sends(m) = <<Event("error", VehicleFailure, 0)>>
             \/ /\ pc'[m] = "arm_wait"
                /\ vehicle'.mode = "GUIDED"
                /\ Sends(m) = <<Event("status", "Arming vehicle...", 0)>>]_vars

\* The numbers of the events of a type that a run has sent, in order.
Numbers(events, type) ==
    LET of_type == SelectSeq(events, LAMBDA e : e.type = type)
    IN  [k \in DOMAIN of_type |-> of_type[k].n]

\* C20: for the run m whose MissionState is the live one, the
\* waypoint_progress events sent so far are numbered 1, 2, ... in order, one
\* for each point started; the photo_taken events are numbered 1, 2, ... as
\* well; and photos_taken is the number of photo_taken events, which is at
\* most the number of waypoint_progress events.
SurveyInOrder ==
    \A m \in Runs :
       current_mission # None /\ current_mission.owner = m
       => LET progress == Numbers(log[m], "waypoint_progress")
              photos == Numbers(log[m], "photo_taken")
          IN  /\ progress = [k \in DOMAIN progress |-> k]
              /\ Len(progress) \in {i[m], i[m] + 1}
              /\ photos = [k \in DOMAIN photos |-> k]
              /\ current_mission.photos_taken = Len(photos)
              /\ Len(photos) <= Len(progress)

\* C21: for one polygon of 3 vertices or more and one altitude, where the
\* call with enhanced_3d false has returned and the call with enhanced_3d
\* true has ended, the latter has returned too, its list starts with the
\* whole list of the former and goes on with at least one point, and every
\* point it goes on with is at altitude + 10; with turf installed as
\* without.
EnhancedExtendsStandard ==
    \A standard, enhanced \in Runs :
       /\ watch = "pattern"
       /\ ~mission_data[standard].enhanced3d /\ mission_data[enhanced].enhanced3d
       /\ Len(mission_data[standard].waypoints) >= MinVertices
       /\ pc[standard] = "returned" /\ pc[enhanced] \in {"returned", "raised"}
       => LET first == survey_points[standard]
              both == survey_points[enhanced]
          IN  /\ pc[enhanced] = "returned"
              /\ Len(both) > Len(first)
              /\ SubSeq(both, 1, Len(first)) = first
              /\ \A k \in Len(first) + 1 .. Len(both) :
                    both[k].altitude = FeetToMeters(mission_data[enhanced].altitude)
                                        + EnhancedAltitudeOffset

\* The phases of a run that has been started and has not yet come to its
\* terminal report.
LivePhases == {"Starting"} \cup CancellablePhases

\* C22: a stop_mission handled while a spawned run is in a phase before its
\* terminal report takes the cancelling branch: it clears the flag and sends
\* "Stopping mission...", not the warning that no mission is active (so
\* that the run finds the flag cleared and reports no mission_complete).
StopCancelsAccepted ==
    [][\A l \in Lines :
          /\ StopMission(l)
          /\ \E m \in Runs : Phase(m) \in LivePhases
          => /\ ~is_mission_active'
             /\ out' = <<Event("status", "Stopping mission...", 0)>>]_vars

\* C23: a run over a polygon of 3 vertices or more under which stop_mission
\* cleared the flag issues no go-to and
\* sends no mission_complete from then on, and its finally clause leaves the
\* flag and the MissionState of another run that is under way as they are.
CancelledNeverResumes ==
    [][\A m \in Runs :
          /\ stopped_in[m] # "none" /\ pc'[m] # pc[m]
          /\ Len(mission_data[m].waypoints) >= MinVertices
          => /\ ~(pc[m] = "for_loop" /\ pc'[m] = "arrival_wait")
             /\ ~HasType(Sends(m), "mission_complete")
             /\ /\ pc[m] = "finally"
                /\ current_mission # None /\ current_mission.owner # m
                /\ Phase(current_mission.owner) \in CancellablePhases
                => /\ current_mission' = current_mission
                   /\ is_mission_active' = is_mission_active]_vars

\* C24: while the mode is LAND, which only emergency_land sets, a step of a
\* run of execute_mission over a polygon of 3 vertices or more leaves the mode LAND, and it is neither the
\* takeoff nor a go-to.
LandIsFinal ==
    [][\A m \in Runs :
          /\ vehicle # None /\ vehicle.mode = "LAND"
          /\ pc[m] \notin {"idle", "done"} /\ pc'[m] # pc[m]
          /\ Len(mission_data[m].waypoints) >= MinVertices
          => /\ vehicle'.mode = "LAND"
             /\ ~(pc[m] = "arm_wait" /\ pc'[m] = "takeoff_wait")
             /\ ~(pc[m] = "for_loop" /\ pc'[m] = "arrival_wait")]_vars

\* C25: a mission_status that the telemetry loop sends while the run that
\* owns the MissionState is surveying, and has announced a point, carries
\* as current_waypoint the number of the last waypoint_progress of that run.
StatusNamesCurrentPoint ==
    [][\A m \in Runs :
          /\ TelemetryEnrich /\ HasType(sent', "telemetry")
          /\ current_mission # None /\ current_mission.owner = m
          /\ Phase(m) = "Surveying"
          /\ Len(mission_data[m].waypoints) >= MinVertices
          /\ Numbers(log[m], "waypoint_progress") # <<>>
          => LET progress == Numbers(log[m], "waypoint_progress")
             IN  sent'[Len(sent')].n = progress[Len(progress)]]_vars

====
